---- MODULE Spec2Model ----
(***************************************************************************)
(* pyPaRibbon: the distributed covariance / threshold kernel of            *)
(* btools.py (BTools.range, BTools.buildB, BTools.do_thresh) and the       *)
(* ribbon-width reduction of the driver bmata.py, as a state machine of    *)
(* nprocs SPMD ranks that meet at the MPI collectives.                     *)
(*                                                                         *)
(* Samples are small integers.  A mean over the ensemble is kept as the    *)
(* exact fraction [num |-> sum, den |-> count]; the floating point         *)
(* rounding of the means is not modelled.                                  *)
(***************************************************************************)
EXTENDS Integers, Sequences, FiniteSets, TLC

\* ------------------------------------------------------------------------
\* Bounds of the model
\* ------------------------------------------------------------------------
\* largest extents of the grid and largest number Nz*Ny*Nx of grid points
MaxNz == 2
MaxNy == 2
MaxNx == 3
MaxG == 4
\* largest number of MPI ranks
MaxP == 2
\* largest length and rank count of a decomposition computed on its own
MaxL == 12
MaxRanks == 6
\* largest capacity of output arrays a caller of do_thresh brings
MaxCap == 2

\* the grids (Nz, Ny, Nx) of at most MaxG points
Grids ==
  {g \in (1..MaxNz) \X (1..MaxNy) \X (1..MaxNx) : g[1] * g[2] * g[3] <= MaxG}

\* the ensemble at one grid point, one sample per member: a point without
\* variance and two points of covariance -1/2 and correlation 1/sqrt(2)
PointVecs == {<<0, 0>>, <<1, 1>>, <<0, -1>>}

\* sample values
Vals == {-1, 0, 1}

\* correlation thresholds, as fractions: negative, zero, 9/10, above one
Thresholds ==
  {[num |-> -1, den |-> 1], [num |-> 0, den |-> 1],
   [num |-> 9, den |-> 10], [num |-> 2, den |-> 1]}

VARIABLES
  gn_,        \* global grid dimensions (Nz, Ny, Nx)
  nprocs_,    \* number of ranks
  nens_,      \* number of ensemble members
  threshold,  \* correlation coefficient threshold
  field,      \* the preprocessed ensemble, [grid point (k, j, i) -> samples]
  x,          \* x[r]: rank r's flattened local slab
  recvbuff_,  \* recvbuff_[r][s]: slot s of rank r's receive buffer
  Bp_len,     \* Bp_len[r]: capacity of rank r's scratch arrays Bp_, Ip_, Jp_
  pc,         \* pc[r]: where rank r is in bmata.py
  BIJ,        \* BIJ[r]: the triples returned by buildB on rank r
  lcount,     \* lcount[r]: number of triples buildB returned on rank r
  shard,      \* shard[r]: the (B, I, J) file rank r has written, or <<>>
  gcount,     \* gcount[r]: all-reduced (SUM) number of triples
  Jmax,       \* Jmax[r]: local per-row maximum column
  Jmin,       \* Jmin[r]: local per-row minimum column
  gJmax,      \* gJmax[r]: all-reduced per-row maximum; later the widths
  gJmin,      \* gJmin[r]: all-reduced per-row minimum
  wfile,      \* the width file: <<>> or the vector last written
  args,       \* arguments of a call of one method on its own, or <<>>
  ret,        \* what that call returned, or <<>>
  calls,      \* calls[r]: the collective calls rank r has completed, in order
  files,      \* the result files that exist, as <<kind, writing rank>>
  stats,      \* stats[r]: the width statistics of rank r, or <<>>
  summary     \* the lines of the summary file written so far

vars ==
  <<gn_, nprocs_, nens_, threshold, field, x, recvbuff_, Bp_len, pc, BIJ,
    lcount, shard, gcount, Jmax, Jmin, gJmax, gJmin, wfile,
    args, ret, calls, files, stats, summary>>

\* ------------------------------------------------------------------------
\* Helpers
\* ------------------------------------------------------------------------
Min2(a, b) == IF a <= b THEN a ELSE b
Max2(a, b) == IF a >= b THEN a ELSE b

SetMax(S) == CHOOSE m \in S : \A n \in S : n <= m
SetMin(S) == CHOOSE m \in S : \A n \in S : m <= n

RECURSIVE SumSeq(_)
SumSeq(s) == IF s = <<>> THEN 0 ELSE Head(s) + SumSeq(Tail(s))

\* np.mean of a vector, as an exact fraction
mean(v) == [num |-> SumSeq(v), den |-> Len(v)]

Ranks == 0 .. (nprocs_ - 1)

\* ------------------------------------------------------------------------
\* BTools.range
\* ------------------------------------------------------------------------
\* a plausible slip: the remainder is not spread over the first ranks
range_noremainder(gn, nprocs, myrank) ==
  LET gib == 1
      gie == gn
      i1  == (gie - gib + 1) \div nprocs
      ib  == myrank * i1 + gib
      ie  == ib + i1 - 1
  IN  <<ib - 1, ie - 1>>

\* (ib, ie): the zero-based inclusive bounds of rank myrank's piece
range(gn, nprocs, myrank) ==
  LET gib == 1
      gie == gn
      i1  == (gie - gib + 1) \div nprocs
      i2  == (gie - gib + 1) % nprocs
      ib  == myrank * i1 + gib + Min2(myrank, i2)
      ie  == ib + i1 - 1 + (IF i2 > myrank THEN 1 ELSE 0)
  IN  <<ib - 1, ie - 1>>

\* ------------------------------------------------------------------------
\* BTools.getSlabData: the slab N[:, :, :, ib:ie+1], then N.flatten()
\* ------------------------------------------------------------------------
\* number of points of one x-column, gn[0]*gn[1]
NzNy(gn) == gn[1] * gn[2]

\* rank r's slab of shape (E, Nz, Ny, nl) in C order
getSlabData(fld, gn, nens, mpiTasks, mpiRank) ==
  LET be == range(gn[3], mpiTasks, mpiRank)
      nl == be[2] - be[1] + 1
      n  == nens * NzNy(gn) * nl
  IN  [p \in 0 .. (n - 1) |->
         LET u == p % nl
             q == (p \div nl) % NzNy(gn)
             e == p \div (nl * NzNy(gn))
             k == q \div gn[2]
             j == q % gn[2]
         IN  fld[<<k, j, be[1] + u>>][e + 1]]

\* len() of a flattened array
len(a) == Cardinality(DOMAIN a)

\* ------------------------------------------------------------------------
\* BTools.__init__
\* ------------------------------------------------------------------------
\* widest slab over the ranks
nxmax_(gn, nprocs) ==
  SetMax({range(gn[3], nprocs, i)[2] - range(gn[3], nprocs, i)[1] + 1 :
            i \in 0 .. (nprocs - 1)})

\* samples of one receive-buffer slot
szbuff(gn, nens, nprocs) == nens * nxmax_(gn, nprocs) * gn[1] * gn[2]

\* the receive buffer after construction: recvbuff_.fill(myrank)
recvbuff_init(gn, nens, nprocs, myrank) ==
  [s \in 0 .. (nprocs - 1) |->
     [p \in 0 .. (szbuff(gn, nens, nprocs) - 1) |-> myrank]]

\* capacity of the scratch arrays Bp_, Ip_, Jp_
linsz(gn, nens, nprocs) == szbuff(gn, nens, nprocs) * szbuff(gn, nens, nprocs)

\* ------------------------------------------------------------------------
\* BTools.do_thresh
\* ------------------------------------------------------------------------
\* flat position of ldata.reshape(nens, Nz*Ny, nlslice)[e, i, ii]
lpos(gn, nlslice, e, i, ii) == (e * NzNy(gn) + i) * nlslice + ii

\* flat position of rdata.reshape(nens, Nz*Ny, nxmax_)[e, j, jj]
rpos(gn, nxmax, e, j, jj) == (e * NzNy(gn) + j) * nxmax + jj

\* lslice[:, i] of l-slice ii
lslice(ldata, gn, nens, nlslice, ii, i) ==
  [e \in 1 .. nens |-> ldata[lpos(gn, nlslice, e - 1, i, ii)]]

\* rslice[:, j] of r-slice jj
rslice(rdata, gn, nens, nxmax, jj, j) ==
  [e \in 1 .. nens |-> rdata[rpos(gn, nxmax, e - 1, j, jj)]]

\* a plausible slip: the in-column position is split by Ny instead of Nz
Ig_split_by_ny(gn, lnb, i) ==
  LET ig   == (lnb + i) \div (gn[1] * gn[2])
      ntmp == ig * gn[1] * gn[2]
      jg   == (lnb + i - ntmp) \div gn[2]
      kg   == lnb + i - jg * gn[2] - ntmp
  IN  ig + jg * gn[3] + kg * gn[2] * gn[3]

\* global matrix row of point i of the column that starts at lnb
Ig(gn, lnb, i) ==
  LET ig   == (lnb + i) \div (gn[1] * gn[2])
      ntmp == ig * gn[1] * gn[2]
      jg   == (lnb + i - ntmp) \div gn[1]
      kg   == lnb + i - jg * gn[1] - ntmp
  IN  ig + jg * gn[3] + kg * gn[2] * gn[3]

\* global matrix column of point j of the column that starts at rnb
Jg(gn, rnb, j) ==
  LET ig   == (rnb + j) \div (gn[1] * gn[2])
      ntmp == ig * gn[1] * gn[2]
      jg   == (rnb + j - ntmp) \div gn[1]
      kg   == rnb + j - jg * gn[1] - ntmp
  IN  ig + jg * gn[3] + kg * gn[2] * gn[3]

\* elementwise square and product of sample vectors
sq(v) == [e \in DOMAIN v |-> v[e] * v[e]]
multiply(v, w) == [e \in DOMAIN v |-> v[e] * w[e]]

\* a plausible slip: the comparison is made on the squares without the
\* division, so that a zero denominator no longer yields nan
ccoef_ge_nodivide(covar, CII, CJJ, thresh) ==
  \/ thresh.num <= 0
  \/ covar.num * covar.num * thresh.den * thresh.den
       >= thresh.num * thresh.num * CII.num * CJJ.num

\* ccoef >= thresh for ccoef = abs(covar)/math.sqrt(CII*CJJ) in numpy
\* arithmetic: 0/0 is nan and compares false, c/0 is inf; otherwise the
\* comparison of the squares, the common denominators cancelled
ccoef_ge(covar, CII, CJJ, thresh) ==
  IF CII.num * CJJ.num = 0
    THEN covar.num # 0
    ELSE \/ thresh.num <= 0
         \/ covar.num * covar.num * thresh.den * thresh.den
              >= thresh.num * thresh.num * CII.num * CJJ.num

\* the pair (ii, i) x (jj, j) the kernel visits at step t of its four loops
pairAt(gn, nrslice, t) ==
  LET m == NzNy(gn)
  IN  [ii |-> t \div (m * nrslice * m),
       i  |-> (t \div (nrslice * m)) % m,
       jj |-> (t \div m) % nrslice,
       j  |-> t % m]

\* the slices and offsets do_thresh derives from the two ranks
slices(gn, nprocs, irecv, myrank) ==
  LET rb == range(gn[3], nprocs, irecv)
      lb == range(gn[3], nprocs, myrank)
  IN  [rnb0    |-> rb[1] * gn[2] * gn[1],
       nrslice |-> rb[2] - rb[1] + 1,
       ib      |-> lb[1],
       nlslice |-> lb[2] - lb[1] + 1,
       nxmax   |-> nxmax_(gn, nprocs)]

\* what the kernel computes for one pair: covariance, variances, indices;
\* `at' records the slab position the triple was computed from
candidate(ldata, rdata, irecv, nens, gn, sl, myrank, t) ==
  LET p   == pairAt(gn, sl.nrslice, t)
      lnb == (sl.ib + p.ii) * gn[2] * gn[1]
      rnb == sl.rnb0 + p.jj * gn[2] * gn[1]
      lv  == lslice(ldata, gn, nens, sl.nlslice, p.ii, p.i)
      rv  == rslice(rdata, gn, nens, sl.nxmax, p.jj, p.j)
  IN  [B   |-> mean(multiply(lv, rv)),
       I   |-> Ig(gn, lnb, p.i),
       J   |-> Jg(gn, rnb, p.j),
       CII |-> mean(sq(lv)),
       CJJ |-> mean(sq(rv)),
       at  |-> <<myrank, p.ii, p.i, irecv, p.jj, p.j>>]

\* the triples B[0:n], I[0:n], J[0:n] written by one call, in loop order
do_thresh(ldata, rdata, irecv, nens, thresh, gn, nprocs, myrank) ==
  LET sl      == slices(gn, nprocs, irecv, myrank)
      total   == sl.nlslice * NzNy(gn) * sl.nrslice * NzNy(gn)
      all     == [t \in 1 .. total |->
                    candidate(ldata, rdata, irecv, nens, gn, sl, myrank,
                              t - 1)]
      keep(c) == ccoef_ge(c.B, c.CII, c.CJJ, thresh)
      kept    == SelectSeq(all, keep)
  IN  [n \in 1 .. Len(kept) |->
         [B |-> kept[n].B, I |-> kept[n].I, J |-> kept[n].J,
          at |-> kept[n].at]]

\* ------------------------------------------------------------------------
\* BTools.buildB, after the all-gather: the loop over the peers
\* ------------------------------------------------------------------------
\* what buildB reads back from self.Bp_[0:n], self.Ip_[0:n], self.Jp_[0:n]:
\* the triples written, unless the call replaced the scratch arrays
readback(written, ldata, rdata, bplen) ==
  IF len(ldata) * len(rdata) > bplen
    THEN [n \in 1 .. Len(written) |->
            [B |-> [num |-> 0, den |-> 1], I |-> 0, J |-> 0,
             at |-> written[n].at]]
    ELSE written

RECURSIVE buildB_from(_, _, _, _, _, _, _, _, _)
buildB_from(i, bplen, ldata, recvbuff, nens, cthresh, gn, nprocs, myrank) ==
  IF i >= nprocs
    THEN [BIJ |-> <<>>, Bp_len |-> bplen]
    ELSE LET w    == do_thresh(ldata, recvbuff[i], i, nens, cthresh, gn,
                               nprocs, myrank)
             got  == readback(w, ldata, recvbuff[i], bplen)
             cap  == Max2(bplen, len(ldata) * len(recvbuff[i]))
             rest == buildB_from(i + 1, cap, ldata, recvbuff, nens, cthresh,
                                 gn, nprocs, myrank)
         IN  [BIJ |-> got \o rest.BIJ, Bp_len |-> rest.Bp_len]

buildB(bplen, ldata, recvbuff, nens, cthresh, gn, nprocs, myrank) ==
  buildB_from(0, bplen, ldata, recvbuff, nens, cthresh, gn, nprocs, myrank)

\* ------------------------------------------------------------------------
\* BTools.do_thresh called with the output arrays B, I, J of its caller
\* ------------------------------------------------------------------------
\* B.own: the arrays are the scratch arrays self.Bp_, self.Ip_, self.Jp_ of
\* the object, as buildB passes them; B.len: their capacity. The resize test
\* looks at self.Bp_ (of capacity bplen) and rebinds self.Bp_, self.Ip_ and
\* self.Jp_; the loop writes B[n], I[n], J[n] through the arguments, and a
\* write at n = len(B) raises IndexError. Bp_ is what self.Bp_[0:n],
\* self.Ip_[0:n], self.Jp_[0:n] hold afterwards.
do_thresh_call(B, bplen, ldata, rdata, irecv, nens, thresh, gn, nprocs, myrank) ==
  LET w       == do_thresh(ldata, rdata, irecv, nens, thresh, gn, nprocs,
                           myrank)
      resized == len(ldata) * len(rdata) > bplen
      raised  == Len(w) > B.len
      n       == IF raised THEN B.len ELSE Len(w)
  IN  [raised |-> raised,
       n      |-> n,
       Bp_    |-> [k \in 1 .. n |->
                     IF B.own /\ ~ resized
                       THEN [B |-> w[k].B, I |-> w[k].I, J |-> w[k].J]
                       ELSE [B |-> [num |-> 0, den |-> 1], I |-> 0,
                             J |-> 0]]]

\* ------------------------------------------------------------------------
\* BTools.writeResults: the shard holds the three arrays
\* ------------------------------------------------------------------------
writeResults(xBIJ) ==
  [n \in 1 .. Len(xBIJ) |->
     [B |-> xBIJ[n].B, I |-> xBIJ[n].I, J |-> xBIJ[n].J]]

\* ------------------------------------------------------------------------
\* bmata.py: per-row minimum and maximum column of one rank
\* ------------------------------------------------------------------------
\* number of grid points, np.prod(gdims)
prod(gn) == gn[1] * gn[2] * gn[3]

\* sentinel of the row minimum
IMAX(gn) == prod(gn) + 10

\* B, I, J permuted by np.argsort(I)
argsort(xBIJ) == SortSeq(xBIJ, LAMBDA a, b : a.I < b.I)

\* np.unique(I): the position of the first triple of row v in the sorted
\* arrays (zero-based) and the number of triples of the row
iunique(S, v) == SetMin({n \in 1 .. Len(S) : S[n].I = v}) - 1
counts(S, v) == Cardinality({n \in 1 .. Len(S) : S[n].I = v})

\* the columns J[iunique[i] + j], j < counts[i], scanned for unique row v
Jchk(S, v) ==
  LET first == iunique(S, v)
      cnt   == counts(S, v)
  IN  {S[first + j + 1].J : j \in 0 .. (cnt - 1)}

\* Jmax and Jmin after the loop over the unique rows; ind = I[iunique[i]]
Jmax_local(S, gn) ==
  [ind \in 0 .. (prod(gn) - 1) |->
     IF \E n \in 1 .. Len(S) : S[n].I = ind
       THEN SetMax({-1} \cup Jchk(S, S[iunique(S, ind) + 1].I))
       ELSE -1]

Jmin_local(S, gn) ==
  [ind \in 0 .. (prod(gn) - 1) |->
     IF \E n \in 1 .. Len(S) : S[n].I = ind
       THEN SetMin({IMAX(gn)} \cup Jchk(S, S[iunique(S, ind) + 1].I))
       ELSE IMAX(gn)]

\* comm.Allreduce of per-row vectors with MPI.MAX and MPI.MIN
AllreduceMAX(vec, nprocs, gn) ==
  [g \in 0 .. (prod(gn) - 1) |->
     SetMax({vec[q][g] : q \in 0 .. (nprocs - 1)})]

AllreduceMIN(vec, nprocs, gn) ==
  [g \in 0 .. (prod(gn) - 1) |->
     SetMin({vec[q][g] : q \in 0 .. (nprocs - 1)})]

\* a plausible slip: the negative differences of absent rows are kept
widths_noclamp(gmax, gmin) == [g \in DOMAIN gmax |-> gmax[g] - gmin[g]]

\* gJmax -= gJmin, then gJmax[gJmax < 0] = 0
widths(gmax, gmin) ==
  [g \in DOMAIN gmax |->
     IF gmax[g] - gmin[g] < 0 THEN 0 ELSE gmax[g] - gmin[g]]

\* the sanity gate passes
gate_ok(gmax, gmin, gn) ==
  /\ ~ (SetMax({gmax[g] : g \in DOMAIN gmax}) >= prod(gn))
  /\ ~ (SetMin({gmin[g] : g \in DOMAIN gmin}) < 0)

\* ------------------------------------------------------------------------
\* bmata.py: the width statistics and the summary
\* ------------------------------------------------------------------------
\* gJmax -= gJmin
spans(gmax, gmin) == [g \in DOMAIN gmax |-> gmax[g] - gmin[g]]

\* np.argmax: the first row that holds the maximum
argmax(w) ==
  SetMin({g \in DOMAIN w : w[g] = SetMax({w[h] : h \in DOMAIN w})})

\* np.sum over the rows R of w
RECURSIVE SumOver(_, _)
SumOver(w, R) ==
  IF R = {} THEN 0
  ELSE LET g == CHOOSE h \in R : TRUE IN w[g] + SumOver(w, R \ {g})

\* a quotient of numpy scalars: n / 0 does not raise, 0 / 0 is nan
isnan(q) == q.den = 0

\* Wkeep[Wkeep < avgWidth + 2*stdWidth] with avgWidth = S / n and
\* stdWidth = sqrt(Q / n - (S / n)^2): n*w - S < 2*sqrt(n*Q - S^2)
Wtrim(span, keep) ==
  LET n == Cardinality(keep)
      S == SumOver(span, keep)
      Q == SumOver([g \in DOMAIN span |-> span[g] * span[g]], keep)
      d(g) == n * span[g] - S
  IN  {g \in keep : d(g) < 0 \/ d(g) * d(g) < 4 * (n * Q - S * S)}

\* maxWidth, irowmax, avgWidth and avgWidth1 of the spans gJmax - gJmin
statistics(span) ==
  LET Wkeep == {g \in DOMAIN span : span[g] > 0}
      trim  == Wtrim(span, Wkeep)
  IN  [maxWidth  |-> SetMax({span[g] : g \in DOMAIN span}),
       irowmax   |-> argmax(span),
       avgWidth  |-> [num |-> SumOver(span, Wkeep),
                      den |-> Cardinality(Wkeep)],
       avgWidth1 |-> [num |-> SumOver(span, trim),
                      den |-> Cardinality(trim)]]

\* int(q + 0.5) of a quotient that is not nan
int_round(q) == (2 * q.num + q.den) \div (2 * q.den)

\* the numbers rank 0 writes to the summary file, in the order of the lines:
\* max number of entries, gcount, max possible width, maxWidth, the two
\* averages and irowmax; int(nan) raises and the lines after it are missing
summary_lines(gn, gc, st) ==
  LET head == <<prod(gn) * prod(gn), gc, prod(gn), st.maxWidth>>
  IN  IF isnan(st.avgWidth) THEN head
      ELSE IF isnan(st.avgWidth1)
        THEN Append(head, int_round(st.avgWidth))
      ELSE head \o <<int_round(st.avgWidth), int_round(st.avgWidth1),
                     st.irowmax>>

\* the number of lines of a complete summary
summary_complete(lines) == Len(lines) = 7

\* ------------------------------------------------------------------------
\* The state after getSlabData and the construction of BTools on every rank
\* ------------------------------------------------------------------------
Points(gn) == (0 .. (gn[1] - 1)) \X (0 .. (gn[2] - 1)) \X (0 .. (gn[3] - 1))

Init ==
  /\ gn_ \in Grids
  /\ nprocs_ \in 1 .. MaxP
  /\ threshold \in Thresholds
  /\ field \in [Points(gn_) -> PointVecs]
  /\ nens_ = Len(field[<<0, 0, 0>>])
  /\ x = [r \in Ranks |-> getSlabData(field, gn_, nens_, nprocs_, r)]
  /\ recvbuff_ = [r \in Ranks |-> recvbuff_init(gn_, nens_, nprocs_, r)]
  /\ Bp_len = [r \in Ranks |-> linsz(gn_, nens_, nprocs_)]
  /\ pc = [r \in Ranks |-> "pre_gather"]
  /\ BIJ = [r \in Ranks |-> <<>>]
  /\ lcount = [r \in Ranks |-> 0]
  /\ shard = [r \in Ranks |-> <<>>]
  /\ gcount = [r \in Ranks |-> 0]
  /\ Jmax = [r \in Ranks |-> <<>>]
  /\ Jmin = [r \in Ranks |-> <<>>]
  /\ gJmax = [r \in Ranks |-> <<>>]
  /\ gJmin = [r \in Ranks |-> <<>>]
  /\ wfile = <<>>
  /\ args = <<>>
  /\ ret = <<>>
  /\ calls = [r \in Ranks |-> <<>>]
  /\ files = {}
  /\ stats = [r \in Ranks |-> <<>>]
  /\ summary = <<>>

\* ------------------------------------------------------------------------
\* The collective calls. pc[r] names the statement rank r is at; at a
\* collective call, the rank is in the call and waits for the others
\* ------------------------------------------------------------------------
\* every rank has completed the collective call c
completed(c) == [r \in Ranks |-> Append(calls[r], c)]

\* buildB: self.comm_.barrier()
BarrierPreGather ==
  /\ \A r \in Ranks : pc[r] = "pre_gather"
  /\ calls' = completed("barrier")
  /\ pc' = [r \in Ranks |-> "gather"]
  /\ UNCHANGED <<gn_, nprocs_, nens_, threshold, field, x, recvbuff_, Bp_len,
                 BIJ, lcount, shard, gcount, Jmax, Jmin, gJmax, gJmin, wfile,
                 args, ret, files, stats, summary>>

\* every rank sends as many samples as a slot of the receive buffer holds
counts_match ==
  \A r \in Ranks : len(x[r]) = szbuff(gn_, nens_, nprocs_)

\* slot s as rank r holds it after the all-gather: the samples rank s sent,
\* followed, when rank s sent fewer than a slot holds, by samples the call
\* does not define: either what the buffer of r held before (own), or junk
gathered(r, s, own, junk) ==
  [p \in 0 .. (szbuff(gn_, nens_, nprocs_) - 1) |->
     IF p < len(x[s]) THEN x[s][p]
     ELSE IF own THEN r
     ELSE junk]

\* buildB: self.comm_.Allgather(ldata, self.recvbuff_)
Allgather ==
  /\ \A r \in Ranks : pc[r] = "gather"
  /\ \E own \in BOOLEAN : \E junk \in (IF own THEN {0} ELSE Vals) :
       recvbuff_' =
         [r \in Ranks |-> [s \in Ranks |-> gathered(r, s, own, junk)]]
  /\ calls' = completed("Allgather")
  /\ pc' = [r \in Ranks |-> "post_gather"]
  /\ UNCHANGED <<gn_, nprocs_, nens_, threshold, field, x, Bp_len, BIJ,
                 lcount, shard, gcount, Jmax, Jmin, gJmax, gJmin, wfile,
                 args, ret, files, stats, summary>>

\* the send and receive counts differ: the call is erroneous and the MPI
\* library may end the job instead
AllgatherAbort ==
  /\ \A r \in Ranks : pc[r] = "gather"
  /\ ~ counts_match
  /\ pc' = [r \in Ranks |-> "abort"]
  /\ UNCHANGED <<gn_, nprocs_, nens_, threshold, field, x, recvbuff_, Bp_len,
                 BIJ, lcount, shard, gcount, Jmax, Jmin, gJmax, gJmin, wfile,
                 args, ret, calls, files, stats, summary>>

\* buildB: self.comm_.barrier()
BarrierPostGather ==
  /\ \A r \in Ranks : pc[r] = "post_gather"
  /\ calls' = completed("barrier")
  /\ pc' = [r \in Ranks |-> "thresh"]
  /\ UNCHANGED <<gn_, nprocs_, nens_, threshold, field, x, recvbuff_, Bp_len,
                 BIJ, lcount, shard, gcount, Jmax, Jmin, gJmax, gJmin, wfile,
                 args, ret, files, stats, summary>>

\* ------------------------------------------------------------------------
\* rank r: the threshold loop of buildB, x = None, writeResults
\* ------------------------------------------------------------------------
BuildB(r) ==
  /\ pc[r] = "thresh"
  /\ \E res \in {buildB(Bp_len[r], x[r], recvbuff_[r], nens_, threshold, gn_,
                          nprocs_, r)} :
       /\ BIJ' = [BIJ EXCEPT ![r] = res.BIJ]
       /\ lcount' = [lcount EXCEPT ![r] = Len(res.BIJ)]
       /\ Bp_len' = [Bp_len EXCEPT ![r] = res.Bp_len]
       /\ shard' = [shard EXCEPT ![r] = writeResults(res.BIJ)]
  /\ files' = files \cup {<<"shard", r>>}
  /\ x' = [x EXCEPT ![r] = <<>>]
  /\ pc' = [pc EXCEPT ![r] = "pre_count"]
  /\ UNCHANGED <<gn_, nprocs_, nens_, threshold, field, recvbuff_, gcount,
                 Jmax, Jmin, gJmax, gJmin, wfile,
                 args, ret, calls, stats, summary>>

\* comm.barrier()
BarrierCount ==
  /\ \A r \in Ranks : pc[r] = "pre_count"
  /\ calls' = completed("barrier")
  /\ pc' = [r \in Ranks |-> "count"]
  /\ UNCHANGED <<gn_, nprocs_, nens_, threshold, field, x, recvbuff_, Bp_len,
                 BIJ, lcount, shard, gcount, Jmax, Jmin, gJmax, gJmin, wfile,
                 args, ret, files, stats, summary>>

\* gcount = comm.allreduce(lcount, op=MPI.SUM)
RECURSIVE SumTo(_, _)
SumTo(f, n) == IF n < 0 THEN 0 ELSE f[n] + SumTo(f, n - 1)

CountReduce ==
  /\ \A r \in Ranks : pc[r] = "count"
  /\ gcount' = [r \in Ranks |-> SumTo(lcount, nprocs_ - 1)]
  /\ calls' = completed("allreduce SUM")
  /\ pc' = [r \in Ranks |-> "rows"]
  /\ UNCHANGED <<gn_, nprocs_, nens_, threshold, field, x, recvbuff_, Bp_len,
                 BIJ, lcount, shard, Jmax, Jmin, gJmax, gJmin, wfile,
                 args, ret, files, stats, summary>>

\* rank r: sort on I, unique rows, local per-row Jmax and Jmin
RowMinMax(r) ==
  /\ pc[r] = "rows"
  /\ \E S \in {argsort(BIJ[r])} :
       /\ BIJ' = [BIJ EXCEPT ![r] = S]
       /\ Jmax' = [Jmax EXCEPT ![r] = Jmax_local(S, gn_)]
       /\ Jmin' = [Jmin EXCEPT ![r] = Jmin_local(S, gn_)]
  /\ pc' = [pc EXCEPT ![r] = "reduce_max"]
  /\ UNCHANGED <<gn_, nprocs_, nens_, threshold, field, x, recvbuff_, Bp_len,
                 lcount, shard, gcount, gJmax, gJmin, wfile,
                 args, ret, calls, files, stats, summary>>

\* comm.Allreduce(Jmax, gJmax, op=MPI.MAX); Jmax = None
AllreduceJmax ==
  /\ \A r \in Ranks : pc[r] = "reduce_max"
  /\ gJmax' = [r \in Ranks |-> AllreduceMAX(Jmax, nprocs_, gn_)]
  /\ Jmax' = [r \in Ranks |-> <<>>]
  /\ calls' = completed("Allreduce MAX")
  /\ pc' = [r \in Ranks |-> "reduce_min"]
  /\ UNCHANGED <<gn_, nprocs_, nens_, threshold, field, x, recvbuff_, Bp_len,
                 BIJ, lcount, shard, gcount, Jmin, gJmin, wfile,
                 args, ret, files, stats, summary>>

\* comm.Allreduce(Jmin, gJmin, op=MPI.MIN); Jmin = None
AllreduceJmin ==
  /\ \A r \in Ranks : pc[r] = "reduce_min"
  /\ gJmin' = [r \in Ranks |-> AllreduceMIN(Jmin, nprocs_, gn_)]
  /\ Jmin' = [r \in Ranks |-> <<>>]
  /\ calls' = completed("Allreduce MIN")
  /\ pc' = [r \in Ranks |-> "gate"]
  /\ UNCHANGED <<gn_, nprocs_, nens_, threshold, field, x, recvbuff_, Bp_len,
                 BIJ, lcount, shard, gcount, Jmax, gJmax, wfile,
                 args, ret, files, stats, summary>>

\* rank r: the sanity gate, then the statistics, the widths and the width
\* file, up to the call of the run-time all-reduce
Widths(r) ==
  /\ pc[r] = "gate"
  /\ IF gate_ok(gJmax[r], gJmin[r], gn_)
       THEN /\ stats' = [stats EXCEPT
                           ![r] = statistics(spans(gJmax[r], gJmin[r]))]
            /\ gJmax' = [gJmax EXCEPT ![r] = widths(gJmax[r], gJmin[r])]
            /\ wfile' = widths(gJmax[r], gJmin[r])
            /\ files' = files \cup {<<"width", r>>}
            /\ pc' = [pc EXCEPT ![r] = "time"]
       ELSE /\ pc' = [pc EXCEPT ![r] = "exit"]
            /\ UNCHANGED <<gJmax, wfile, files, stats>>
  /\ UNCHANGED <<gn_, nprocs_, nens_, threshold, field, x, recvbuff_, Bp_len,
                 BIJ, lcount, shard, gcount, Jmax, Jmin, gJmin, args, ret,
                 calls, summary>>

\* a plausible slip: the run time is reduced to rank 0 only
TimeReduce_to_root ==
  /\ \A r \in Ranks : pc[r] = "time"
  /\ calls' = completed("reduce MAX")
  /\ pc' = [r \in Ranks |-> "final"]
  /\ UNCHANGED <<gn_, nprocs_, nens_, threshold, field, x, recvbuff_, Bp_len,
                 BIJ, lcount, shard, gcount, Jmax, Jmin, gJmax, gJmin, wfile,
                 args, ret, files, stats, summary>>

\* a plausible slip: the final barrier stands inside "if mpiRank == 0", so
\* that only rank 0 goes on to it
TimeReduce_barrier_on_root ==
  /\ \A r \in Ranks : pc[r] = "time"
  /\ calls' = completed("allreduce MAX")
  /\ pc' = [r \in Ranks |-> IF r = 0 THEN "final" ELSE "summary"]
  /\ UNCHANGED <<gn_, nprocs_, nens_, threshold, field, x, recvbuff_, Bp_len,
                 BIJ, lcount, shard, gcount, Jmax, Jmin, gJmax, gJmin, wfile,
                 args, ret, files, stats, summary>>

\* gdt = comm.allreduce(ldt, op=MPI.MAX)
TimeReduce ==
  /\ \A r \in Ranks : pc[r] = "time"
  /\ calls' = completed("allreduce MAX")
  /\ pc' = [r \in Ranks |-> "final"]
  /\ UNCHANGED <<gn_, nprocs_, nens_, threshold, field, x, recvbuff_, Bp_len,
                 BIJ, lcount, shard, gcount, Jmax, Jmin, gJmax, gJmin, wfile,
                 args, ret, files, stats, summary>>

\* comm.barrier()
BarrierFinal ==
  /\ \A r \in Ranks : pc[r] = "final"
  /\ calls' = completed("barrier")
  /\ pc' = [r \in Ranks |-> "summary"]
  /\ UNCHANGED <<gn_, nprocs_, nens_, threshold, field, x, recvbuff_, Bp_len,
                 BIJ, lcount, shard, gcount, Jmax, Jmin, gJmax, gJmin, wfile,
                 args, ret, files, stats, summary>>

\* rank r: if mpiRank == 0, the summary file; then the script ends. A nan
\* average raises ValueError in int() and the rank ends with the file cut
Summary(r) ==
  /\ pc[r] = "summary"
  /\ IF r = 0
       THEN \E lines \in {summary_lines(gn_, gcount[r], stats[r])} :
              /\ summary' = lines
              /\ files' = files \cup {<<"summary", r>>}
              /\ pc' = [pc EXCEPT ![r] = IF summary_complete(lines)
                                           THEN "done" ELSE "crash"]
       ELSE /\ pc' = [pc EXCEPT ![r] = "done"]
            /\ UNCHANGED <<summary, files>>
  /\ UNCHANGED <<gn_, nprocs_, nens_, threshold, field, x, recvbuff_, Bp_len,
                 BIJ, lcount, shard, gcount, Jmax, Jmin, gJmax, gJmin, wfile,
                 args, ret, calls, stats>>

Next ==
  \/ BarrierPreGather
  \/ Allgather
  \/ AllgatherAbort
  \/ BarrierPostGather
  \/ \E r \in Ranks : BuildB(r)
  \/ BarrierCount
  \/ CountReduce
  \/ \E r \in Ranks : RowMinMax(r)
  \/ AllreduceJmax
  \/ AllreduceJmin
  \/ \E r \in Ranks : Widths(r)
  \/ TimeReduce
  \/ BarrierFinal
  \/ \E r \in Ranks : Summary(r)

Spec == Init /\ [][Next]_vars

\* ------------------------------------------------------------------------
\* BTools.range on its own: the decomposition of a length over the ranks, as
\* the loop of the constructor and every call site compute it
\* ------------------------------------------------------------------------
\* the run of bmata.py is not started
idle ==
  /\ gn_ = <<1, 1, 1>>
  /\ nprocs_ = 1
  /\ nens_ = 0
  /\ threshold = [num |-> 0, den |-> 1]
  /\ field = <<>>
  /\ x = <<>>
  /\ recvbuff_ = <<>>
  /\ Bp_len = <<>>
  /\ pc = [r \in Ranks |-> "none"]
  /\ BIJ = <<>>
  /\ lcount = <<>>
  /\ shard = <<>>
  /\ gcount = <<>>
  /\ Jmax = <<>>
  /\ Jmin = <<>>
  /\ gJmax = <<>>
  /\ gJmin = <<>>
  /\ wfile = <<>>
  /\ calls = <<>>
  /\ files = {}
  /\ stats = <<>>
  /\ summary = <<>>

InitRange ==
  /\ idle
  /\ args \in [gn : 1 .. MaxL, nprocs : 1 .. MaxRanks]
  /\ ret = <<>>

RangeCalls ==
  /\ args # <<>>
  /\ ret = <<>>
  /\ ret' = [i \in 0 .. (args.nprocs - 1) |-> range(args.gn, args.nprocs, i)]
  /\ UNCHANGED <<gn_, nprocs_, nens_, threshold, field, x, recvbuff_, Bp_len,
                 pc, BIJ, lcount, shard, gcount, Jmax, Jmin, gJmax, gJmin,
                 wfile, args, calls, files, stats, summary>>

NextRange == RangeCalls

SpecRange == InitRange /\ [][NextRange]_vars

\* ------------------------------------------------------------------------
\* BTools.do_thresh on its own: one call on an object constructed for a
\* single rank, whose slot 0 holds the rank's own slab
\* ------------------------------------------------------------------------
\* the output arrays of the call: the scratch arrays of the object, of the
\* capacity linsz the constructor gave them, or arrays of the caller
OutputArrays(gn, nens) ==
  {[own |-> TRUE, len |-> linsz(gn, nens, 1)]}
    \cup {[own |-> FALSE, len |-> c] : c \in 0 .. MaxCap}

\* the number of ensemble members of a field
nensOf(fld) == Len(fld[<<0, 0, 0>>])

\* ldata of the call, which is also rdata: the slab of the only rank
slabOf(a) == getSlabData(a.fld, a.gn, nensOf(a.fld), 1, 0)

ThreshCalls ==
  UNION {UNION {{[gn |-> g, fld |-> f, thresh |-> t, B |-> b] :
                   t \in Thresholds, b \in OutputArrays(g, nensOf(f))} :
                f \in [Points(g) -> PointVecs]} : g \in Grids}

InitThresh ==
  /\ idle
  /\ args \in ThreshCalls
  /\ ret = <<>>


ThreshCall ==
  /\ args # <<>>
  /\ ret = <<>>
  /\ ret' = do_thresh_call(args.B, linsz(args.gn, nensOf(args.fld), 1),
                           slabOf(args), slabOf(args), 0, nensOf(args.fld),
                           args.thresh, args.gn, 1, 0)
  /\ UNCHANGED <<gn_, nprocs_, nens_, threshold, field, x, recvbuff_, Bp_len,
                 pc, BIJ, lcount, shard, gcount, Jmax, Jmin, gJmax, gJmin,
                 wfile, args, calls, files, stats, summary>>

NextThresh == ThreshCall

SpecThresh == InitThresh /\ [][NextThresh]_vars

\* ------------------------------------------------------------------------
\* Properties
\* ------------------------------------------------------------------------

\* C9: for every length L >= 1 and every P >= 1, also P > L, the pieces
\* range(L, P, 0..P-1) partition [0, L): the first starts at 0, the last ends
\* at L-1, consecutive pieces abut, and each piece is the closed form
\* ib = r*q + min(r, s), ie = ib + q - 1 + (1 if r < s else 0), with
\* q = L div P and s = L mod P.
RangePartitions ==
  ret # <<>> =>
    LET L == args.gn
        P == args.nprocs
        q == L \div P
        s == L % P
    IN  /\ ret[0][1] = 0
        /\ ret[P - 1][2] = L - 1
        /\ \A r \in 0 .. (P - 2) : ret[r + 1][1] = ret[r][2] + 1
        /\ \A r \in 0 .. (P - 1) :
             /\ ret[r][1] = r * q + Min2(r, s)
             /\ ret[r][2] = ret[r][1] + q - 1 + (IF r < s THEN 1 ELSE 0)

\* a decomposition over more ranks than there are columns has been computed
RangeMoreRanksThanLength ==
  /\ ret # <<>>
  /\ args.nprocs > args.gn
  /\ args.gn > 1

\* ------------------------------------------------------------------------
\* Vocabulary of the properties of a run
\* ------------------------------------------------------------------------
\* the values of pc at which the widths are computed, the global count is
\* known, buildB has returned, and the receive buffer is filled
pcWidths == {"time", "final", "summary", "done", "crash"}
pcCounted == {"rows", "reduce_max", "reduce_min", "gate", "exit"} \cup pcWidths
pcBuilt == {"pre_count", "count"} \cup pcCounted
pcGathered == {"post_gather", "thresh"} \cup pcBuilt

\* rank r has returned from buildB
built(r) == pc[r] \in pcBuilt

\* the triples rank r holds, and the (value, row, column) triples of all ranks
triplesOf(r) == {BIJ[r][n] : n \in 1 .. Len(BIJ[r])}
unionBIJ ==
  {<<t.B, t.I, t.J>> : t \in UNION {triplesOf(r) : r \in Ranks}}

\* the grid point (k, j, i) at in-column position q of global column c
pointAt(q, c) == <<q \div gn_[2], q % gn_[2], c>>

\* the global linear index i + j*Nx + k*Nx*Ny of the grid point (k, j, i)
linear(pt) == pt[3] + pt[2] * gn_[3] + pt[1] * gn_[3] * gn_[2]

\* first column of rank r's slab, and its number of columns
ibOf(r) == range(gn_[3], nprocs_, r)[1]
nsliceOf(r) == range(gn_[3], nprocs_, r)[2] - range(gn_[3], nprocs_, r)[1] + 1

\* C1: the row index of a triple computed from in-column position i of slab
\* column u of the local rank is (ib + u) + j*Nx + k*Nx*Ny with i = k*Ny + j,
\* and its column index is the same formula at the peer's position.
IndexIsSpecFormula ==
  \A r \in Ranks : \A t \in triplesOf(r) :
    /\ t.I = linear(pointAt(t.at[3], ibOf(t.at[1]) + t.at[2]))
    /\ t.J = linear(pointAt(t.at[6], ibOf(t.at[4]) + t.at[5]))

\* C2: after the all-gather, for peer s, member e, in-column point q and
\* peer column v the kernel reads, on every rank, a position among the
\* samples rank s contributed, and finds there the sample of rank s's slab.
KernelReadsPeerSamples ==
  \A r \in Ranks :
    pc[r] \in pcGathered
    =>
    \A s \in Ranks : \A e \in 0 .. (nens_ - 1) :
      \A q \in 0 .. (NzNy(gn_) - 1) : \A v \in 0 .. (nsliceOf(s) - 1) :
        LET pos == rpos(gn_, nxmax_(gn_, nprocs_), e, q, v)
        IN  /\ pos < nens_ * NzNy(gn_) * nsliceOf(s)
            /\ recvbuff_[r][s][pos] = field[pointAt(q, ibOf(s) + v)][e + 1]

\* the run of the same grid, ensemble and threshold on a single rank
singleSlab == getSlabData(field, gn_, nens_, 1, 0)
singleBIJ ==
  buildB(linsz(gn_, nens_, 1), singleSlab, [s \in {0} |-> singleSlab], nens_,
         threshold, gn_, 1, 0).BIJ
singleUnion(one) == {<<one[n].B, one[n].I, one[n].J>> : n \in 1 .. Len(one)}
singleWidths(one) ==
  LET S == argsort(one)
  IN  widths(AllreduceMAX([q \in {0} |-> Jmax_local(S, gn_)], 1, gn_),
             AllreduceMIN([q \in {0} |-> Jmin_local(S, gn_)], 1, gn_))

\* C3: the union over the ranks of the emitted triples, the global count and
\* the width vector are those of the single-rank run, whatever the number of
\* ranks.
UnionIndependentOfRanks ==
  (\A r \in Ranks : built(r)) =>
    LET one == singleBIJ
    IN  /\ unionBIJ = singleUnion(one)
        /\ \A r \in Ranks :
             pc[r] \in pcCounted
             => gcount[r] = Len(one)
        /\ \A r \in Ranks :
             pc[r] \in pcWidths => gJmax[r] = singleWidths(one)

\* the grid point whose global linear index is g
flat_to_ijk(g) ==
  <<g \div (gn_[3] * gn_[2]), (g \div gn_[3]) % gn_[2], g % gn_[3]>>

\* |c| / sqrt(var_a * var_b) >= thresh for the samples a and b of two points
corr_ge(a, b, thresh) ==
  LET saa == SumSeq(sq(a))
      sbb == SumSeq(sq(b))
      sab == SumSeq(multiply(a, b))
  IN  /\ saa * sbb > 0
      /\ \/ thresh.num <= 0
         \/ sab * sab * thresh.den * thresh.den
              >= thresh.num * thresh.num * saa * sbb

\* C4: every triple (B, I, J) a rank holds has the correlation coefficient of
\* the grid points with global indices I and J at or above the threshold, and
\* B is the signed covariance of the samples of those two points.
TriplesAreThresholdedCovariances ==
  \A r \in Ranks : \A t \in triplesOf(r) :
    LET a == field[flat_to_ijk(t.I)]
        b == field[flat_to_ijk(t.J)]
    IN  /\ corr_ge(a, b, threshold)
        /\ t.B = mean(multiply(a, b))

\* the samples the kernel computed triple t from: the local point's and the
\* ones it read from the receive buffer
localSamples(t) == field[pointAt(t.at[3], ibOf(t.at[1]) + t.at[2])]
peerSamples(t) ==
  rslice(recvbuff_[t.at[1]][t.at[4]], gn_, nens_, nxmax_(gn_, nprocs_),
         t.at[5], t.at[6])

occurrences(i, j) ==
  Cardinality({rn \in UNION {{r} \X (1 .. Len(BIJ[r])) : r \in Ranks} :
                 BIJ[rn[1]][rn[2]].I = i /\ BIJ[rn[1]][rn[2]].J = j})

\* C6: when every grid point has a variance, threshold 0 retains every
\* ordered pair of grid points exactly once over the ranks, G*G triples in
\* all, and a threshold above 1 retains none.
ThresholdExtremes ==
  ( /\ \A r \in Ranks : pc[r] \in pcCounted
    /\ \A pt \in DOMAIN field : SumSeq(sq(field[pt])) # 0 )
  =>
  /\ threshold.num = 0 =>
       /\ \A i, j \in 0 .. (prod(gn_) - 1) : occurrences(i, j) = 1
       /\ \A r \in Ranks : gcount[r] = prod(gn_) * prod(gn_)
  /\ threshold.num > threshold.den =>
       /\ \A r \in Ranks : BIJ[r] = <<>>
       /\ \A r \in Ranks : gcount[r] = 0

\* C7: whenever some rank emits (i, j), some rank emits (j, i) with the same
\* covariance.
UnionSymmetric ==
  (\A r \in Ranks : built(r)) =>
    \A t \in unionBIJ : <<t[1], t[3], t[2]>> \in unionBIJ

\* C8: every triple of a rank has its row and its column in [0, G), and no
\* (row, column) pair occurs twice in the arrays of one rank.
IndicesInRangeAndDistinct ==
  \A r \in Ranks : \A n \in 1 .. Len(BIJ[r]) :
    /\ BIJ[r][n].I \in 0 .. (prod(gn_) - 1)
    /\ BIJ[r][n].J \in 0 .. (prod(gn_) - 1)
    /\ \A m \in 1 .. Len(BIJ[r]) :
         m # n => <<BIJ[r][m].I, BIJ[r][m].J>> # <<BIJ[r][n].I, BIJ[r][n].J>>

\* a rank holds several triples of a grid with Nz > 1 and Nz # Ny
TriplesOnTallGrid ==
  \E r \in Ranks :
    /\ gn_[1] > 1
    /\ gn_[1] # gn_[2]
    /\ nprocs_ > 1
    /\ Len(BIJ[r]) > 2

\* the columns retained in row g by any rank
rowColumns(g) == {t[3] : t \in {u \in unionBIJ : u[2] = g}}

\* C10: after the MAX and MIN all-reduces every rank holds, per row, the
\* largest and smallest column retained by any rank, and the sentinels -1
\* and G+10 for a row no rank retained; the width vector has length G, its
\* entry is max - min for a retained row and 0 for an absent one.
WidthsAreRowSpans ==
  \A r \in Ranks :
    /\ pc[r] = "gate" =>
         /\ DOMAIN gJmax[r] = 0 .. (prod(gn_) - 1)
         /\ DOMAIN gJmin[r] = 0 .. (prod(gn_) - 1)
         /\ \A g \in 0 .. (prod(gn_) - 1) :
              IF rowColumns(g) = {}
                THEN gJmax[r][g] = -1 /\ gJmin[r][g] = prod(gn_) + 10
                ELSE /\ gJmax[r][g] = SetMax(rowColumns(g))
                     /\ gJmin[r][g] = SetMin(rowColumns(g))
    /\ pc[r] \in pcWidths =>
         /\ DOMAIN gJmax[r] = 0 .. (prod(gn_) - 1)
         /\ wfile = gJmax[r]
         /\ \A g \in 0 .. (prod(gn_) - 1) :
              gJmax[r][g] = IF rowColumns(g) = {} THEN 0
                            ELSE SetMax(rowColumns(g)) - SetMin(rowColumns(g))

\* two ranks have written widths with an absent row and a row of width > 0
WidthsWithAbsentRow ==
  \E r \in Ranks :
    /\ pc[r] = "time"
    /\ nprocs_ = 2
    /\ \E g \in 0 .. (prod(gn_) - 1) : rowColumns(g) = {}
    /\ \E g \in 0 .. (prod(gn_) - 1) : gJmax[r][g] > 0

\* ------------------------------------------------------------------------
\* The sanity gate and the result files
\* ------------------------------------------------------------------------
\* C11: if the sanity gate fails on a rank, no result file of the run
\* exists at that moment: no shard, no width vector and no summary.
NoFilesAtGateAbort ==
  (\E r \in Ranks : pc[r] = "exit") => files = {}

\* the reduced vectors every rank tests at the gate pass it: the columns
\* lie in [0, G) and the sentinels are -1 and G + 10
SanityGatePasses ==
  \A r \in Ranks :
    pc[r] = "gate" => gate_ok(gJmax[r], gJmin[r], gn_)

\* a rank that has not yet tested the gate has written its shard
ShardWrittenBeforeGate ==
  \A r \in Ranks :
    pc[r] \in {"count", "rows", "reduce_max", "reduce_min", "gate"} =>
      <<"shard", r>> \in files

\* ------------------------------------------------------------------------
\* The collective calls of a run
\* ------------------------------------------------------------------------
\* how many times the call c stands in a list of calls
times(list, c) == Cardinality({n \in 1 .. Len(list) : list[n] = c})

\* rank r has made no collective call beyond those of the list, and has made
\* all of them once it is past the last one
callsWithin(r, list) ==
  /\ \A n \in 1 .. Len(calls[r]) :
       times(calls[r], calls[r][n]) <= times(list, calls[r][n])
  /\ pc[r] \in {"summary", "done", "crash"} =>
       \A n \in 1 .. Len(list) :
         times(calls[r], list[n]) = times(list, list[n])

\* C12: the collective calls of a rank are exactly the barrier before the
\* all-gather, the all-gather, the barrier after it, the MAX and MIN
\* all-reduces of the per-row vectors, the MAX all-reduce of the run time,
\* the SUM all-reduce of the local count and one final barrier.
CollectivePointsAsListed ==
  \A r \in Ranks :
    callsWithin(r, <<"barrier", "Allgather", "barrier", "Allreduce MAX",
                     "Allreduce MIN", "allreduce MAX", "allreduce SUM",
                     "barrier">>)

\* C12, amended: the same list with one more barrier, the one before the SUM
\* all-reduce of the local count.
CollectivePointsWithCountBarrier ==
  \A r \in Ranks :
    callsWithin(r, <<"barrier", "Allgather", "barrier", "barrier",
                     "allreduce SUM", "Allreduce MAX", "Allreduce MIN",
                     "allreduce MAX", "barrier">>)

\* one of two ranks has ended after its nine collective calls
NineCollectivesMade ==
  \E r \in Ranks :
    /\ nprocs_ = 2
    /\ pc[r] = "done"
    /\ Len(calls[r]) = 9

\* ------------------------------------------------------------------------
\* The output arrays of do_thresh
\* ------------------------------------------------------------------------
\* the triples the call of args retains, in loop order
retained(a) ==
  do_thresh(slabOf(a), slabOf(a), 0, nensOf(a.fld), a.thresh, a.gn, 1, 0)

\* C13: a call of do_thresh with output arrays of a capacity smaller than
\* the number of triples it retains does not fail with an out-of-range
\* write, and afterwards the n triples it counted stand in the first n
\* slots of self.Bp_, self.Ip_, self.Jp_.
ReallocKeepsTriples ==
  (ret # <<>> /\ args.B.len < Len(retained(args))) =>
     LET w == retained(args)
     IN  /\ ~ ret.raised
         /\ ret.n = Len(w)
         /\ \A k \in 1 .. ret.n :
              /\ ret.Bp_[k].I = w[k].I
              /\ ret.Bp_[k].J = w[k].J
              /\ ret.Bp_[k].B.num * w[k].B.den
                   = w[k].B.num * ret.Bp_[k].B.den

\* ------------------------------------------------------------------------
\* The width statistics
\* ------------------------------------------------------------------------
\* C14: on every rank that has passed the sanity gate the set of rows of
\* width > 0 and the trimmed set are non-empty, so that avgWidth and
\* avgWidth1 are numbers, and rank 0 ends with the complete summary written.
StatisticsWellDefined ==
  /\ \A r \in Ranks :
       pc[r] \in pcWidths =>
         /\ ~ isnan(stats[r].avgWidth)
         /\ ~ isnan(stats[r].avgWidth1)
  /\ pc[0] # "crash"
  /\ pc[0] = "done" => summary_complete(summary)

\* ------------------------------------------------------------------------
\* The ranks and the collective calls
\* ------------------------------------------------------------------------
\* the place of a value of pc in the order of the statements; a rank that
\* has ended is past all of them
place ==
  [pre_gather |-> 1, gather |-> 2, post_gather |-> 3, thresh |-> 4,
   pre_count |-> 5, count |-> 6, rows |-> 7, reduce_max |-> 8,
   reduce_min |-> 9, gate |-> 10, time |-> 11, final |-> 12, summary |-> 13,
   done |-> 14, crash |-> 14, exit |-> 14, abort |-> 14]

\* the values of pc at which the rank is in a collective call
pcCollective ==
  {"pre_gather", "gather", "post_gather", "pre_count", "count", "reduce_max",
   "reduce_min", "time", "final"}

\* any two ranks have completed the same collective calls in the same order,
\* decide alike at the sanity gate, and neither is in a collective call the
\* other has gone past without entering
ranksAgree ==
  \A r, q \in Ranks :
    /\ calls[r] = calls[q]
    /\ (pc[r] = "gate" /\ pc[q] = "gate") =>
         (gate_ok(gJmax[r], gJmin[r], gn_) <=> gate_ok(gJmax[q], gJmin[q], gn_))
    /\ ~ (pc[r] = "exit" /\ pc[q] \in pcWidths)
    /\ pc[r] \in pcCollective => place[pc[q]] <= place[pc[r]]

\* C15: all ranks make the same collective calls in the same order and take
\* the same branch at the sanity gate: no rank has exited at the gate while
\* another has passed it, and no rank waits in a collective call that
\* another rank never enters: while a rank is in a collective call, either
\* another rank is still at work on its way to the call or a collective
\* call can return.
RanksAgreeOnCollectives ==
  /\ ranksAgree
  /\ (\E r \in Ranks : pc[r] \in pcCollective) =>
       \/ \E q \in Ranks : pc[q] \in {"thresh", "rows", "gate"}
       \/ ENABLED (\/ BarrierPreGather \/ Allgather \/ BarrierPostGather
                   \/ BarrierCount \/ CountReduce \/ AllreduceJmax
                   \/ AllreduceJmin \/ TimeReduce \/ BarrierFinal)

\* two ranks with different local counts have come out of the final barrier
BothRanksPastFinalBarrier ==
  /\ nprocs_ = 2
  /\ \A r \in Ranks : pc[r] = "summary"
  /\ lcount[0] # lcount[1]

====
